---- MODULE Spec2Model ----
(***************************************************************************)
(* Model of asyncgit's AsyncFetch (src/asyncgit/src/fetch.rs): the         *)
(* single-flight background fetch job, its worker thread, the progress     *)
(* relay thread it spawns, the three mutex-guarded slots (state,           *)
(* last_result, progress) and the notification channel to the foreground.  *)
(*                                                                         *)
(* Threads: one foreground thread (the only caller of request(), which     *)
(* takes &mut self), one worker per admitted request, one relay per        *)
(* worker.  Every step that takes a lock is one action; request() is four  *)
(* steps (is_pending, set_request, set_progress, thread::spawn).           *)
(*                                                                         *)
(* Option<T> is a sequence of length 0 or 1; a String is a sequence of     *)
(* tokens, so String::new() is <<>>.                                       *)
(***************************************************************************)
EXTENDS Integers, Sequences, FiniteSets

\* ---------------------------------------------------------------- bounds

\* requests admitted in one run
MaxJobs == 2
\* progress events the executor emits in one job
MaxEvents == 2
\* faults (a poisoned mutex, a dropped notification receiver) in one run
MaxFaults == 1

\* ------------------------------------------------------------ value sets

None == <<>>
Some(x) == <<x>>
IsSome(o) == o # <<>>

\* FetchRequest values (the branch is what reaches fetch_origin)
Params == {"main", "dev"}

\* Error values the executor can fail with
Errors == { [variant |-> "Generic", text |-> <<>>],
            [variant |-> "NoHead",  text |-> <<>>] }

NoError == [variant |-> "none", text |-> <<>>]

\* Display of an Error (e.to_string()); "BT" stands for a backtick
to_string(e) ==
    IF e.variant = "Generic" THEN <<"BT">> \o e.text \o <<"BT">>
    ELSE <<"git: no head found">>

\* received byte counts fetch_origin can report
Metrics == {0, 512}

\* Result<usize> of fetch_origin
ExecResults ==
    { [ok |-> TRUE, bytes |-> m, err |-> NoError] : m \in Metrics }
      \cup { [ok |-> FALSE, bytes |-> 0, err |-> e] : e \in Errors }

NoResult == [ok |-> FALSE, bytes |-> 0, err |-> NoError]

\* (current, total) of the progress events the executor may emit
Counts == { <<1, 10>>, <<10, 10>> }

Locks == {"state", "last_result", "progress"}

Jobs == 1..MaxJobs

\* -------------------------------------------------------------- variables

VARIABLES
    state,        \* Arc<Mutex<Option<FetchState>>>
    last_result,  \* Arc<Mutex<Option<(usize, String)>>>
    progress,     \* Arc<Mutex<Option<ProgressNotification>>>
    poisoned,     \* the mutexes whose holder panicked
    sender,       \* the notifications sent on the channel so far, in order
    rxAlive,      \* the application still holds the channel's receiver
    fg,           \* where the foreground thread is inside request()
    fgParams,     \* params of the request() call in progress
    reqRet,       \* what the last finished request() call returned
    nJobs,        \* worker threads spawned
    wpc,          \* each worker's position in the closure
    wparams,      \* the params each worker's closure captured
    wres,         \* each worker's res, once fetch_origin returned
    rpc,          \* each relay thread's position
    chan,         \* each worker's private progress channel
    nEmitted,     \* events the running executor call has emitted so far
    hist,         \* history: what happened to each job
    execArg,      \* history: the branch given to the latest fetch_origin call
    written,      \* history: the job and the res of the latest set_result
    tally,        \* history: the events and progress notifications of the latest job
    owner,        \* the thread inside the critical section of each mutex
    pump          \* an event_pump call: its arguments and its outcome

vars == << state, last_result, progress, poisoned, sender, rxAlive, fg,
           fgParams, reqRet, nJobs, wpc, wparams, wres, rpc, chan,
           nEmitted, hist, execArg, written, tally >>

ghosts == << hist, execArg, written, tally >>

\* what the steps of AsyncFetch leave alone: they take and release a mutex
\* within one step, and event_pump is another part of the program
aux == << owner, pump >>

\* no thread is inside the critical section
NoOwner == << >>

\* event_pump has not returned
NoRet == [tag |-> "none", val |-> FALSE, by |-> 0]

\* no event_pump call
NoPump == [ev |-> "none", components |-> << >>, ret |-> NoRet, called |-> << >>]

slots == << state, last_result, progress >>
threads == << wpc, wparams, wres, rpc, chan, nEmitted >>
fgvars == << fg, fgParams, reqRet >>

\* ProgressNotification::Done, the sentinel
Done == [kind |-> "Done", current |-> 0, total |-> 0, job |-> 0, seq |-> 0]

\* a progress event of job j (job and seq are history tags: which job emitted
\* it and as which of its events)
Event(c, j, k) ==
    [kind |-> "Transfer", current |-> c[1], total |-> c[2], job |-> j, seq |-> k]

\* the notification as if its value said what it was sent for
Notification_Tagged(why) == why

\* the notification sent for a progress event ("progress") and for the end of
\* a job ("completion"): AsyncNotification::Fetch both times
Notification(why) == "Fetch"

\* no progress event
NoEvent == [kind |-> "none", current |-> 0, total |-> 0, job |-> 0, seq |-> 0]

\* history of job j when it is admitted: the events fetch_origin emitted, the
\* last of them, and the progress notifications its relay sent
NewTally(j) == [job |-> j, emitted |-> 0, last |-> NoEvent, ticks |-> 0]

NoHist == [ admitted |-> FALSE, returned |-> FALSE, wrote |-> FALSE,
            cleared |-> FALSE, notified |-> FALSE, panicAt |-> "",
            ret |-> "none" ]

\* ------------------------------------------------------------ AsyncFetch

\* the fields new() sets, given the initial last_result
InitWith(res) ==
    /\ state = None
    /\ last_result = res
    /\ progress = None
    /\ poisoned = {}
    /\ sender = <<>>
    /\ rxAlive = TRUE
    /\ fg = "idle"
    /\ fgParams = ""
    /\ reqRet = "none"
    /\ nJobs = 0
    /\ wpc = [j \in Jobs |-> "none"]
    /\ wparams = [j \in Jobs |-> ""]
    /\ wres = [j \in Jobs |-> NoResult]
    /\ rpc = [j \in Jobs |-> "none"]
    /\ chan = [j \in Jobs |-> <<>>]
    /\ nEmitted = [j \in Jobs |-> 0]
    /\ hist = [j \in Jobs |-> NoHist]
    /\ execArg = ""
    /\ written = [job |-> 0, res |-> NoResult]
    /\ tally = NewTally(0)
    /\ owner = [l \in Locks |-> NoOwner]

\* new() as if last_result started as an empty success
Init_DefaultResult == InitWith(Some(<<0, <<>>>>)) /\ pump = NoPump

\* AsyncFetch::new
Init == InitWith(None) /\ pump = NoPump

\* Result<T> of an accessor
Ok(v) == [ok |-> TRUE, val |-> <<v>>, err |-> ""]
Err(e) == [ok |-> FALSE, val |-> <<>>, err |-> e]

\* Mutex::lock() on lock l fails with a PoisonError
LockFails(l) == l \in poisoned

\* is_pending as if it never reported a pending job
is_pending_NeverBusy ==
    IF LockFails("state") THEN Err("PoisonError") ELSE Ok(FALSE)

\* AsyncFetch::is_pending
is_pending ==
    IF LockFails("state") THEN Err("PoisonError") ELSE Ok(IsSome(state))

\* AsyncFetch::last_result
last_result_get ==
    IF LockFails("last_result") THEN Err("PoisonError") ELSE Ok(last_result)

\* ProgressNotification -> RemoteProgress: the UI-facing snapshot
Into(p) == [current |-> p.current, total |-> p.total]

\* AsyncFetch::progress
progress_get ==
    IF LockFails("progress") THEN Err("PoisonError")
    ELSE Ok(IF IsSome(progress) THEN Some(Into(progress[1])) ELSE None)

\* the value set_request installs
NewState(params) == Some([request |-> params])

\* AsyncFetch::set_request: the result and the new state
set_request(params) ==
    IF LockFails("state") THEN [ret |-> "ErrLock", state |-> state]
    ELSE IF IsSome(state) THEN [ret |-> "ErrPending", state |-> state]
    ELSE [ret |-> "Ok", state |-> NewState(params)]

\* set_result as if a failure were stored without its message
ResultRecord_NoMessage(res) ==
    IF res.ok THEN Some(<<res.bytes, <<>>>>) ELSE Some(<<0, <<>>>>)

\* AsyncFetch::set_result: the value written for res
ResultRecord(res) ==
    IF res.ok THEN Some(<<res.bytes, <<>>>>)
    ELSE Some(<<0, to_string(res.err)>>)

\* the closure as if clear_request ran before fetch_origin
WorkerOrder_ClearFirst ==
    << "start", "clear", "exec", "send_done", "join", "set_result", "notify" >>

\* the closure as if clear_request ran before set_result
WorkerOrder_ClearBeforeResult ==
    << "start", "exec", "send_done", "join", "clear", "set_result", "notify" >>

\* the closure as if the completion notification were sent before the result
\* is written and the state cleared
WorkerOrder_NotifyFirst ==
    << "start", "exec", "send_done", "join", "notify", "set_result", "clear" >>

\* the closure as if clear_request ran before the relay is joined
WorkerOrder_ClearBeforeJoin ==
    << "start", "exec", "send_done", "clear", "join", "set_result", "notify" >>

\* the closure as if the sentinel were sent before fetch_origin is called
WorkerOrder_DoneBeforeExec ==
    << "start", "send_done", "exec", "join", "set_result", "clear", "notify" >>

\* the worker closure's statements in program order (lines 85-113):
\*   start      unbounded() and RemoteProgress::spawn_receiver_thread
\*   exec       fetch_origin(CWD, &params.branch, .., Some(progress_sender))
\*   send_done  progress_sender.send(ProgressNotification::Done).expect(..)
\*   join       handle.join().expect(..)
\*   set_result Self::set_result(arc_res, res).expect(..)
\*   clear      Self::clear_request(arc_state).expect(..)
\*   notify     sender.send(AsyncNotification::Fetch).expect(..)
WorkerOrder ==
    << "start", "exec", "send_done", "join", "set_result", "clear", "notify" >>


IndexOf(seq, x) == CHOOSE i \in 1..Len(seq) : seq[i] = x

\* the statement after statement s ("done": the closure returned)
NextPc(s) ==
    LET i == IndexOf(WorkerOrder, s) IN
      IF i = Len(WorkerOrder) THEN "done" ELSE WorkerOrder[i + 1]

\* the pc a freshly spawned worker starts at
FirstPc == WorkerOrder[1]

\* the job the next admitted request starts
NextJob == nJobs + 1

\* worker j's closure has ended: its captured params and its res are dropped
Ended(pc) == pc \in {"done", "panicked"}
DropLocals(locals, j, pc, empty) ==
    IF Ended(pc) THEN [locals EXCEPT ![j] = empty] ELSE locals

\* request(), lines 72-74: the is_pending check
RequestCheck(params) ==
    /\ fg = "idle"
    /\ fgParams' = params
    /\ LET p == is_pending IN
         IF ~p.ok THEN /\ fg' = "idle" /\ reqRet' = "ErrLock"
         ELSE IF p.val[1] THEN /\ fg' = "idle" /\ reqRet' = "Ok"
         ELSE /\ Cardinality({ j \in Jobs : hist[j].admitted }) < MaxJobs
              /\ fg' = "set_request" /\ reqRet' = "none"
    /\ UNCHANGED << slots, poisoned, sender, rxAlive, nJobs, threads, ghosts >>

\* request(), line 76: set_request(&params)?
RequestSet ==
    /\ fg = "set_request"
    /\ LET r == set_request(fgParams) IN
         /\ state' = r.state
         /\ IF r.ret = "Ok"
              THEN /\ fg' = "set_progress"
                   /\ reqRet' = reqRet
                   /\ hist' = [hist EXCEPT ![NextJob].admitted = TRUE]
                   /\ tally' = NewTally(NextJob)
              ELSE /\ fg' = "idle"
                   /\ reqRet' = r.ret
                   /\ hist' = hist
                   /\ tally' = tally
    /\ UNCHANGED << last_result, progress, poisoned, sender, rxAlive, fgParams,
                    nJobs, threads, execArg, written >>

\* request()'s reset as if it wrote an empty event instead of None
ResetValue_EmptyEvent == Some(NoEvent)

\* the value request() passes to set_progress (line 77)
ResetValue == None

\* request(), line 77: RemoteProgress::set_progress(self.progress.clone(), None)?
RequestResetProgress ==
    /\ fg = "set_progress"
    /\ IF LockFails("progress")
         THEN /\ fg' = "idle" /\ reqRet' = "ErrLock" /\ progress' = progress
         ELSE /\ fg' = "spawn" /\ reqRet' = reqRet /\ progress' = ResetValue
    /\ UNCHANGED << state, last_result, poisoned, sender, rxAlive, fgParams,
                    nJobs, threads, ghosts >>

\* request(), lines 79-116: thread::spawn of the worker, then Ok(())
RequestSpawn ==
    /\ fg = "spawn"
    /\ fg' = "idle"
    /\ reqRet' = "Ok"
    /\ nJobs' = NextJob
    /\ wpc' = [wpc EXCEPT ![NextJob] = FirstPc]
    /\ wparams' = [wparams EXCEPT ![NextJob] = fgParams]
    /\ hist' = [hist EXCEPT ![NextJob].ret = "Ok"]
    /\ UNCHANGED << slots, poisoned, sender, rxAlive, fgParams, wres,
                    rpc, chan, nEmitted, execArg, written, tally >>

\* ---------------------------------------------------------------- worker

\* the relay's end of the progress channel exists and is not dropped
ReceiverAlive(j) == rpc[j] \in {"recv", "notify"}

\* worker j moves to pc; res becomes r; the locals die with the closure
WorkerGoto(j, pc, r) ==
    /\ wpc' = [wpc EXCEPT ![j] = pc]
    /\ wparams' = DropLocals(wparams, j, pc, "")
    /\ wres' = DropLocals([wres EXCEPT ![j] = r], j, pc, NoResult)

\* worker j panics in statement s
WorkerPanic(j, s) ==
    /\ WorkerGoto(j, "panicked", wres[j])
    /\ hist' = [hist EXCEPT ![j].panicAt = s]

\* lines 85-92: create the channel, spawn the relay thread
WorkerStart(j) ==
    /\ wpc[j] = "start"
    /\ WorkerGoto(j, NextPc("start"), wres[j])
    /\ rpc' = [rpc EXCEPT ![j] = "recv"]
    /\ UNCHANGED << slots, poisoned, sender, rxAlive, fgvars, nJobs, chan,
                    nEmitted, ghosts >>

\* line 94: the worker enters fetch_origin with &params.branch
ExecCall(j) ==
    /\ wpc[j] = "exec"
    /\ WorkerGoto(j, "running", wres[j])
    /\ execArg' = wparams[j]
    /\ UNCHANGED << slots, poisoned, sender, rxAlive, fgvars, nJobs, rpc, chan,
                    nEmitted, hist, written, tally >>

\* fetch_origin reports progress through progress_sender; an event sent to a
\* channel whose receiver is gone is lost
ExecEmit(j, c) ==
    /\ wpc[j] = "running"
    /\ nEmitted[j] < MaxEvents
    /\ nEmitted' = [nEmitted EXCEPT ![j] = @ + 1]
    /\ chan' = IF ReceiverAlive(j)
                 THEN [chan EXCEPT ![j] = Append(@, Event(c, j, nEmitted[j] + 1))]
                 ELSE chan
    /\ tally' = IF tally.job = j
                  THEN [tally EXCEPT !.emitted = @ + 1,
                                     !.last = Event(c, j, nEmitted[j] + 1)]
                  ELSE tally
    /\ UNCHANGED << slots, poisoned, sender, rxAlive, fgvars, nJobs, wpc,
                    wparams, wres, rpc, hist, execArg, written >>

\* lines 94-99: fetch_origin returns res
ExecReturn(j, r) ==
    /\ wpc[j] = "running"
    /\ WorkerGoto(j, NextPc("exec"), r)
    /\ nEmitted' = [nEmitted EXCEPT ![j] = 0]
    /\ hist' = [hist EXCEPT ![j].returned = TRUE]
    /\ UNCHANGED << slots, poisoned, sender, rxAlive, fgvars, nJobs, rpc, chan,
                    execArg, written, tally >>

\* lines 101-103: send the sentinel; the send fails when the relay is gone
WorkerSendDone(j) ==
    /\ wpc[j] = "send_done"
    /\ IF ReceiverAlive(j)
         THEN /\ chan' = [chan EXCEPT ![j] = Append(@, Done)]
              /\ WorkerGoto(j, NextPc("send_done"), wres[j])
              /\ hist' = hist
         ELSE /\ chan' = chan
              /\ WorkerPanic(j, "send_done")
    /\ UNCHANGED << slots, poisoned, sender, rxAlive, fgvars, nJobs, rpc,
                    nEmitted, execArg, written, tally >>

\* line 105: join the relay; join returns Err when the relay panicked
WorkerJoin(j) ==
    /\ wpc[j] = "join"
    /\ rpc[j] \in {"done", "panicked"}
    /\ IF rpc[j] = "done"
         THEN /\ WorkerGoto(j, NextPc("join"), wres[j])
              /\ hist' = hist
         ELSE WorkerPanic(j, "join")
    /\ UNCHANGED << slots, poisoned, sender, rxAlive, fgvars, nJobs, rpc, chan,
                    nEmitted, execArg, written, tally >>

\* line 107 and set_result, lines 143-158; res is moved into set_result
WorkerSetResult(j) ==
    /\ wpc[j] = "set_result"
    /\ IF LockFails("last_result")
         THEN /\ WorkerPanic(j, "set_result")
              /\ last_result' = last_result
              /\ written' = written
         ELSE /\ last_result' = ResultRecord(wres[j])
              /\ WorkerGoto(j, NextPc("set_result"), NoResult)
              /\ hist' = [hist EXCEPT ![j].wrote = TRUE]
              /\ written' = [job |-> j, res |-> wres[j]]
    /\ UNCHANGED << state, progress, poisoned, sender, rxAlive, fgvars, nJobs,
                    rpc, chan, nEmitted, execArg, tally >>

\* line 109 and clear_request, lines 133-141
WorkerClear(j) ==
    /\ wpc[j] = "clear"
    /\ IF LockFails("state")
         THEN /\ WorkerPanic(j, "clear")
              /\ state' = state
         ELSE /\ state' = None
              /\ WorkerGoto(j, NextPc("clear"), wres[j])
              /\ hist' = [hist EXCEPT ![j].cleared = TRUE]
    /\ UNCHANGED << last_result, progress, poisoned, sender, rxAlive, fgvars,
                    nJobs, rpc, chan, nEmitted, execArg, written, tally >>

\* lines 111-113: the completion notification
WorkerNotify(j) ==
    /\ wpc[j] = "notify"
    /\ IF rxAlive
         THEN /\ sender' = Append(sender, Notification("completion"))
              /\ WorkerGoto(j, NextPc("notify"), wres[j])
              /\ hist' = [hist EXCEPT ![j].notified = TRUE]
         ELSE /\ WorkerPanic(j, "notify")
              /\ sender' = sender
    /\ UNCHANGED << slots, poisoned, rxAlive, fgvars, nJobs, rpc, chan,
                    nEmitted, execArg, written, tally >>

\* ----------------------------------------------------------------- relay

\* the relay receives the next event: the sentinel ends the loop, any other
\* event is written to the progress slot
RelayRecv(j) ==
    /\ rpc[j] = "recv"
    /\ chan[j] # <<>>
    /\ chan' = [chan EXCEPT ![j] = Tail(@)]
    /\ LET ev == Head(chan[j]) IN
         IF ev.kind = "Done"
           THEN /\ rpc' = [rpc EXCEPT ![j] = "done"]
                /\ progress' = progress
           ELSE IF LockFails("progress")
             THEN /\ rpc' = [rpc EXCEPT ![j] = "panicked"]
                  /\ progress' = progress
             ELSE /\ rpc' = [rpc EXCEPT ![j] = "notify"]
                  /\ progress' = Some(ev)
    /\ UNCHANGED << state, last_result, poisoned, sender, rxAlive, fgvars,
                    nJobs, wpc, wparams, wres, nEmitted, ghosts >>

\* the relay pushes the progress notification for the event it wrote
RelayNotify(j) ==
    /\ rpc[j] = "notify"
    /\ IF rxAlive
         THEN /\ sender' = Append(sender, Notification("progress"))
              /\ rpc' = [rpc EXCEPT ![j] = "recv"]
              /\ tally' = IF tally.job = j THEN [tally EXCEPT !.ticks = @ + 1]
                           ELSE tally
         ELSE /\ sender' = sender
              /\ rpc' = [rpc EXCEPT ![j] = "panicked"]
              /\ tally' = tally
    /\ UNCHANGED << slots, poisoned, rxAlive, fgvars, nJobs, wpc, wparams,
                    wres, chan, nEmitted, hist, execArg, written >>

\* ----------------------------------------------------------- environment

\* faults so far
NFaults == Cardinality(poisoned) + (IF rxAlive THEN 0 ELSE 1)

\* the application drops the receiver of the notification channel
DropReceiver ==
    /\ rxAlive
    /\ NFaults < MaxFaults
    /\ rxAlive' = FALSE
    /\ UNCHANGED << slots, poisoned, sender, fgvars, nJobs, threads, ghosts >>

\* a thread panics while it holds lock l: Mutex::lock() on l fails from then
\* on.  Before the first worker is spawned the foreground is the only thread
\* that can hold a lock.
PoisonLock(l) ==
    /\ l \notin poisoned
    /\ nJobs >= 1
    /\ NFaults < MaxFaults
    /\ poisoned' = poisoned \cup {l}
    /\ UNCHANGED << slots, sender, rxAlive, fgvars, nJobs, threads, ghosts >>

Next ==
    \/ (\E p \in Params : RequestCheck(p)) /\ UNCHANGED aux
    \/ RequestSet /\ UNCHANGED aux
    \/ RequestResetProgress /\ UNCHANGED aux
    \/ RequestSpawn /\ UNCHANGED aux
    \/ (\E j \in Jobs : WorkerStart(j)) /\ UNCHANGED aux
    \/ (\E j \in Jobs : ExecCall(j)) /\ UNCHANGED aux
    \/ (\E j \in Jobs : \E c \in Counts : ExecEmit(j, c)) /\ UNCHANGED aux
    \/ (\E j \in Jobs : \E r \in ExecResults : ExecReturn(j, r)) /\ UNCHANGED aux
    \/ (\E j \in Jobs : WorkerSendDone(j)) /\ UNCHANGED aux
    \/ (\E j \in Jobs : WorkerJoin(j)) /\ UNCHANGED aux
    \/ (\E j \in Jobs : WorkerSetResult(j)) /\ UNCHANGED aux
    \/ (\E j \in Jobs : WorkerClear(j)) /\ UNCHANGED aux
    \/ (\E j \in Jobs : WorkerNotify(j)) /\ UNCHANGED aux
    \/ (\E j \in Jobs : RelayRecv(j)) /\ UNCHANGED aux
    \/ (\E j \in Jobs : RelayNotify(j)) /\ UNCHANGED aux
    \/ DropReceiver /\ UNCHANGED aux
    \/ (\E l \in Locks : PoisonLock(l)) /\ UNCHANGED aux

Spec == Init /\ [][Next]_vars

\* the statements of worker j's closure
WorkerStep(j) ==
    \/ WorkerStart(j)
    \/ ExecCall(j)
    \/ WorkerSendDone(j)
    \/ WorkerJoin(j)
    \/ WorkerSetResult(j)
    \/ WorkerClear(j)
    \/ WorkerNotify(j)

\* the statements of relay j's loop
RelayStep(j) == RelayRecv(j) \/ RelayNotify(j)

\* the rest of a request() call that passed the is_pending check
RequestStep == RequestSet \/ RequestResetProgress \/ RequestSpawn

\* every live thread keeps being scheduled
Fairness ==
    /\ WF_vars(RequestStep)
    /\ \A j \in Jobs : WF_vars(WorkerStep(j)) /\ WF_vars(RelayStep(j))

\* Spec under fair scheduling of the foreground, the workers and the relays
FairSpec == Spec /\ Fairness

\* the steps of Next in which no fault occurs
NextNoFault == Next /\ poisoned' = poisoned /\ rxAlive' = rxAlive

\* FairSpec restricted to runs without a poisoned mutex or a dropped receiver
FairSpecNoFault == Init /\ [][NextNoFault]_vars /\ Fairness

\* ------------------------------------------------------------- the locks

\* Spec takes each Mutex::lock(), the body it guards and the drop of the
\* guard as one step.  LockSpec takes them apart: a thread first becomes the
\* owner of the mutex its next statement locks (it waits while another thread
\* owns it), then runs the statement, at whose end the guard is dropped.

Fg == << "fg", 0 >>
Worker(j) == << "worker", j >>
Relay(j) == << "relay", j >>
Threads == {Fg} \cup { Worker(j) : j \in Jobs } \cup { Relay(j) : j \in Jobs }

\* the mutexes thread t is inside
Owned(t) == { l \in Locks : owner[l] = t }

\* set_result as if its guard outlived the function
GuardDrop_Never(l) == {}

\* the guard `let x = m.lock()?` is a local of the function that took it
\* (lines 52, 58, 64, 120, 136, 147): it is dropped when the function returns
GuardDrop(l) == {l}

\* the mutexes thread t leaves at the end of a statement that locked l
Unlock(t, l) ==
    owner' = [ m \in Locks |->
                 IF owner[m] = t /\ m \in GuardDrop(l) THEN NoOwner ELSE owner[m] ]

\* the mutex the next statement of thread t locks first:
\*   foreground  is_pending(), last_result(), progress() or request() (which
\*               starts with is_pending(), line 72) when no call is running;
\*               set_request (line 120); set_progress (line 77)
\*   worker      set_result (line 147); clear_request (line 136)
\*   relay       set_progress, once recv() returned an event that is not Done
Wants(t) ==
    IF t = Fg
      THEN CASE fg = "idle" /\ Owned(Fg) = {} -> Locks
             [] fg = "set_request" -> {"state"}
             [] fg = "set_progress" -> {"progress"}
             [] OTHER -> {}
    ELSE IF t[1] = "worker"
      THEN CASE wpc[t[2]] = "set_result" -> {"last_result"}
             [] wpc[t[2]] = "clear" -> {"state"}
             [] OTHER -> {}
    ELSE IF rpc[t[2]] = "recv" /\ chan[t[2]] # << >>
              /\ Head(chan[t[2]]).kind # "Done"
      THEN {"progress"}
      ELSE {}

\* Mutex::lock(): thread t waits until no thread is inside l, then enters
Acquire(t, l) ==
    /\ l \in Wants(t)
    /\ owner[l] = NoOwner
    /\ owner' = [owner EXCEPT ![l] = t]
    /\ UNCHANGED << vars, pump >>

\* is_pending(), last_result() or progress() called outside request()
\* returns: lines 53, 59, 65
AccessorReturn(l) ==
    /\ fg = "idle"
    /\ owner[l] = Fg
    /\ Unlock(Fg, l)
    /\ UNCHANGED << vars, pump >>

\* the statement of thread t that locks l: its body, then the guard's drop
Locked(t, l, body) ==
    /\ owner[l] = t
    /\ body
    /\ Unlock(t, l)
    /\ UNCHANGED pump

\* the relay receives the sentinel: no mutex is taken
RelayRecvDone(j) ==
    /\ chan[j] # << >>
    /\ Head(chan[j]).kind = "Done"
    /\ RelayRecv(j)
    /\ UNCHANGED aux

LockNext ==
    \/ \E t \in Threads : \E l \in Locks : Acquire(t, l)
    \/ \E l \in Locks : AccessorReturn(l)
    \/ \E p \in Params : Locked(Fg, "state", RequestCheck(p))
    \/ Locked(Fg, "state", RequestSet)
    \/ Locked(Fg, "progress", RequestResetProgress)
    \/ RequestSpawn /\ UNCHANGED aux
    \/ (\E j \in Jobs : WorkerStart(j)) /\ UNCHANGED aux
    \/ (\E j \in Jobs : ExecCall(j)) /\ UNCHANGED aux
    \/ (\E j \in Jobs : \E c \in Counts : ExecEmit(j, c)) /\ UNCHANGED aux
    \/ (\E j \in Jobs : \E r \in ExecResults : ExecReturn(j, r)) /\ UNCHANGED aux
    \/ (\E j \in Jobs : WorkerSendDone(j)) /\ UNCHANGED aux
    \/ (\E j \in Jobs : WorkerJoin(j)) /\ UNCHANGED aux
    \/ \E j \in Jobs : Locked(Worker(j), "last_result", WorkerSetResult(j))
    \/ \E j \in Jobs : Locked(Worker(j), "state", WorkerClear(j))
    \/ (\E j \in Jobs : WorkerNotify(j)) /\ UNCHANGED aux
    \/ \E j \in Jobs : Locked(Relay(j), "progress", RelayRecv(j))
    \/ \E j \in Jobs : RelayRecvDone(j)
    \/ (\E j \in Jobs : RelayNotify(j)) /\ UNCHANGED aux
    \/ DropReceiver /\ UNCHANGED aux
    \/ (\E l \in Locks : PoisonLock(l)) /\ UNCHANGED aux

lockvars == << vars, owner >>

\* AsyncFetch with the mutexes taken and released in separate steps
LockSpec == Init /\ [][LockNext]_lockvars


\* the steps of a foreground call that has started
FgLockStep ==
    \/ fg # "idle" /\ \E l \in Locks : Acquire(Fg, l)
    \/ \E l \in Locks : AccessorReturn(l)
    \/ \E p \in Params : Locked(Fg, "state", RequestCheck(p))
    \/ Locked(Fg, "state", RequestSet)
    \/ Locked(Fg, "progress", RequestResetProgress)
    \/ RequestSpawn /\ UNCHANGED aux

\* the statements of worker j's closure other than what fetch_origin does
WorkerLockStep(j) ==
    \/ \E l \in Locks : Acquire(Worker(j), l)
    \/ Locked(Worker(j), "last_result", WorkerSetResult(j))
    \/ Locked(Worker(j), "state", WorkerClear(j))
    \/ (WorkerStart(j) \/ ExecCall(j) \/ WorkerSendDone(j) \/ WorkerJoin(j)
          \/ WorkerNotify(j)) /\ UNCHANGED aux

\* the statements of relay j's loop
RelayLockStep(j) ==
    \/ \E l \in Locks : Acquire(Relay(j), l)
    \/ Locked(Relay(j), "progress", RelayRecv(j))
    \/ RelayRecvDone(j)
    \/ RelayNotify(j) /\ UNCHANGED aux

\* the steps of thread t itself (fetch_origin's are not the worker's own)
ThreadStep(t) ==
    IF t = Fg THEN FgLockStep
    ELSE IF t[1] = "worker" THEN WorkerLockStep(t[2])
    ELSE RelayLockStep(t[2])

\* ------------------------------------------------------------ event_pump
\* src/src/components/mod.rs, lines 80-92

\* components in one call
MaxComponents == 3

\* crossterm events
Events == {"key", "resize"}

\* Result<bool> of Component::event: Ok(false), Ok(true) or Err
Answers == {"false", "true", "err"}

\* a component, as what its event() answers to each event
Components == [Events -> Answers]

\* the slices of at most MaxComponents components
Slices == UNION { [1..n -> Components] : n \in 0..MaxComponents }

\* Result<bool> of event_pump; an Err is the one of component `by`
OkRet(b) == [tag |-> "Ok", val |-> b, by |-> 0]
ErrRet(i) == [tag |-> "Err", val |-> FALSE, by |-> i]

\* the for loop as if it went on after a component consumed the event
RECURSIVE pump_all(_, _, _, _, _)
pump_all(ev, components, i, called, consumed) ==
    IF i > Len(components)
      THEN [ret |-> OkRet(consumed), called |-> called]
      ELSE LET r == components[i][ev] IN
             IF r = "err"
               THEN [ret |-> ErrRet(i), called |-> Append(called, i)]
               ELSE pump_all(ev, components, i + 1, Append(called, i),
                             consumed \/ r = "true")

\* event_pump as if every component were offered the event
event_pump_OfferAll(ev, components) == pump_all(ev, components, 1, << >>, FALSE)

\* the for loop of event_pump from component i on (lines 84-89): `?` returns
\* the component's error, a consumed event returns Ok(true); called lists the
\* components whose event() ran
RECURSIVE pump_from(_, _, _, _)
pump_from(ev, components, i, called) ==
    IF i > Len(components)
      THEN [ret |-> OkRet(FALSE), called |-> called]
      ELSE LET r == components[i][ev] IN
             IF r = "err"
               THEN [ret |-> ErrRet(i), called |-> Append(called, i)]
             ELSE IF r = "true"
               THEN [ret |-> OkRet(TRUE), called |-> Append(called, i)]
             ELSE pump_from(ev, components, i + 1, Append(called, i))

\* event_pump(ev, components)
event_pump(ev, components) == pump_from(ev, components, 1, << >>)

\* a call of event_pump with any event and any slice of components
PumpInit ==
    /\ InitWith(None)
    /\ pump \in { [ev |-> e, components |-> cs, ret |-> NoRet, called |-> << >>] :
                    e \in Events, cs \in Slices }

\* the call runs and returns
EventPump ==
    /\ pump.ret = NoRet
    /\ LET r == event_pump(pump.ev, pump.components) IN
         pump' = [pump EXCEPT !.ret = r.ret, !.called = r.called]
    /\ UNCHANGED lockvars

PumpNext == EventPump

PumpSpec == PumpInit /\ [][PumpNext]_pump

\* ------------------------------------------------------------ properties

\* the jobs admitted so far (set_request installed a JobState for them)
Admitted == { j \in Jobs : hist[j].admitted }

\* the jobs whose worker was spawned
Spawned == { j \in Jobs : wpc[j] # "none" }

\* the jobs whose worker is alive and has not yet cleared JobState
InFlight == { j \in Spawned : wpc[j] \notin {"done", "panicked"}
                               /\ ~hist[j].cleared }

\* the executor invocations in progress
Executing == { j \in Jobs : wpc[j] = "running" }

\* C1 (single-flight): every worker was spawned by a request() call that
\* installed its JobState from absent; at most one job is in flight and at most
\* one fetch_origin call is in progress at any instant; while a job is in
\* flight JobState is present and holds the request of the admitting call,
\* which is the params its worker captured; the branch a running fetch_origin
\* call was given is that of the admitting call, never that of a later call.
C1_SingleFlight ==
    /\ Cardinality(InFlight) <= 1
    /\ Cardinality(Executing) <= 1
    /\ Spawned \subseteq Admitted
    /\ \A j \in InFlight : state = NewState(wparams[j])
    /\ \A j \in Executing : IsSome(state) /\ execArg = state[1].request

\* C1 witness: two request() calls with different params and no completion in
\* between: one worker, in fetch_origin with the first call's branch, and
\* still pending after the second.
C1_Witness ==
    /\ nJobs = 1 /\ fg = "idle" /\ reqRet = "Ok"
    /\ wpc[1] = "running"
    /\ fgParams # execArg
    /\ state = NewState(execArg)
    /\ is_pending = Ok(TRUE)

\* C2 (idempotent-busy): a request() call (the only step that changes the
\* foreground's variables from idle) that starts while JobState is present
\* (and its lock usable) returns Ok and leaves JobState, ProgressSnapshot,
\* ResultRecord, the workers, the relays and the notification channel unchanged.
C2_IdempotentBusy ==
    [][ (fg = "idle" /\ fgvars' # fgvars /\ IsSome(state) /\ ~LockFails("state"))
          => /\ reqRet' = "Ok"
             /\ fg' = "idle"
             /\ UNCHANGED << slots, sender, nJobs, threads, hist >> ]_vars

\* C2 witness: a busy call returned Ok while a job with progress was running.
C2_Witness ==
    /\ nJobs = 1 /\ fg = "idle" /\ reqRet = "Ok"
    /\ IsSome(state) /\ IsSome(progress)
    /\ fgParams # state[1].request

\* C3 (completion resets pending): when fetch_origin has returned for job j
\* and job j is still pending, eventually is_pending() is Ok(false) and
\* last_result() is Ok(Some(..)).
C3_CompletionResetsPending ==
    \A j \in Jobs :
      (hist[j].returned /\ ~hist[j].cleared) ~>
        (is_pending = Ok(FALSE) /\ last_result_get.ok
           /\ IsSome(last_result_get.val[1]))

\* the most recent job that wrote ResultRecord
Writers == { j \in Jobs : hist[j].wrote }
Max(S) == CHOOSE x \in S : \A y \in S : y <= x

\* C4 (success/failure shape): the ResultRecord of the last job that wrote it
\* is (m, "") when that job's fetch_origin returned Ok(m) and
\* (0, e.to_string()) with a non-empty message when it returned Err(e); the
\* request() call that spawned a worker returned Ok whatever the executor did
\* later.
C4_ResultShape ==
    /\ \A j \in Spawned : hist[j].ret = "Ok"
    /\ Writers # {} =>
         LET o == written.res
             r == last_result[1]
         IN /\ written.job = Max(Writers)
            /\ IsSome(last_result)
            /\ o.ok => r = << o.bytes, <<>> >>
            /\ ~o.ok => /\ r[1] = 0
                        /\ r[2] = to_string(o.err)
                        /\ Len(r[2]) > 0

\* C4 witness: after the first job wrote its result, the second job's
\* fetch_origin failed and the record is (0, message).
C4_Witness ==
    /\ hist[1].wrote /\ written.job = 2 /\ ~written.res.ok
    /\ last_result = Some(<< 0, to_string(written.res.err) >>)
    /\ hist[2].ret = "Ok"

\* C5 (result, then clear, then notify): a job cleared JobState only after it
\* wrote ResultRecord and sent its completion notification only after it
\* cleared JobState, so once the completion notification of job j is on the
\* channel ResultRecord holds the outcome of j or of a later job, and JobState
\* is absent or belongs to a later job.
C5_ResultClearNotifyOrder ==
    /\ \A j \in Jobs : hist[j].cleared => hist[j].wrote
    /\ \A j \in Jobs : hist[j].notified => hist[j].cleared
    /\ \A j \in Jobs :
         hist[j].notified
           => /\ written.job >= j
              /\ Len(sender) >= 1
              /\ IsSome(state) => \E k \in Admitted : k > j

\* C5 witness: the completion notification of the first job is on the
\* channel, after its progress notifications.
C5_Witness ==
    /\ hist[1].notified /\ hist[1].returned
    /\ Len(sender) >= 2
    /\ sender[Len(sender)] = Notification("completion")
    /\ nJobs = 1

\* C6 (result freshness): whenever is_pending() is Ok(false), a request has
\* been admitted and last_result() is Ok, last_result() is the outcome of the
\* most recently admitted job.
C6_ResultFreshness ==
    (is_pending = Ok(FALSE) /\ Admitted # {} /\ last_result_get.ok)
      => /\ written.job = Max(Admitted)
         /\ last_result_get.val[1] = ResultRecord(written.res)

\* C6 witness: two jobs completed in sequence and the record is the second
\* job's failure.
C6_Witness ==
    /\ hist[1].cleared /\ hist[2].cleared
    /\ is_pending = Ok(FALSE)
    /\ written.job = 2 /\ ~written.res.ok
    /\ last_result_get = Ok(ResultRecord(written.res))

\* no request() call has been made yet (fgParams is set by every call)
NoCallYet == fgParams = ""

\* C7 (initial state): before the first request() call is_pending() is
\* Ok(false), progress() is Ok(None) and last_result() is Ok(None), and
\* ResultRecord stays None until a job has written its outcome.
C7_InitialState ==
    /\ NoCallYet => /\ is_pending = Ok(FALSE)
                    /\ progress_get = Ok(None)
                    /\ last_result_get = Ok(None)
    /\ Writers = {} => last_result = None

\* C7 witness: the first job's executor has returned and ResultRecord is still
\* None, because the worker has not written it yet.
C7_Witness ==
    /\ wpc[1] = "set_result" /\ hist[1].returned
    /\ last_result_get = Ok(None)

\* pairs (current, total) that do not regress from a to b
NoRegress(a, b) == b.current >= a.current /\ b.total >= a.total

\* the step is the reset of an admitted request() (line 77)
IsReset == fg = "set_progress" /\ fg' = "spawn" /\ progress' = None

\* C8 as stated (progress monotonic until reset): whenever the snapshot
\* changes from a set value, either an admitted request() reset it to unset or
\* its (current, total) did not regress.
C8_ValuesNeverRegress ==
    [][ (IsSome(progress) /\ progress' # progress)
          => \/ IsReset
             \/ /\ IsSome(progress')
                /\ NoRegress(Into(progress[1]), Into(progress'[1])) ]_vars

\* C8 as amended (emission order until reset): whenever the snapshot changes
\* from a set value, either an admitted request() reset it to unset or it moved
\* to a later event of the same job.
C8_EmissionOrderUntilReset ==
    [][ (IsSome(progress) /\ progress' # progress)
          => \/ IsReset
             \/ /\ IsSome(progress')
                /\ progress'[1].job = progress[1].job
                /\ progress'[1].seq > progress[1].seq ]_vars

\* C8 witness: the snapshot is the second event of a running job, and that
\* event's current is below its total.
C8_Witness ==
    /\ IsSome(progress)
    /\ progress[1].seq = 2
    /\ progress[1].current < progress[1].total
    /\ wpc[progress[1].job] = "running"

\* C9 (lock failure is a recoverable error): each accessor returns Err exactly
\* when the lock it needs is poisoned, and that PoisonError is its only error;
\* a finished request() call returned Ok or a lock error, a lock error only
\* when the state or progress lock is poisoned, and never "pending request".
C9_LockErrorsOnly ==
    /\ is_pending.ok <=> ~LockFails("state")
    /\ last_result_get.ok <=> ~LockFails("last_result")
    /\ progress_get.ok <=> ~LockFails("progress")
    /\ ~is_pending.ok => is_pending.err = "PoisonError"
    /\ ~last_result_get.ok => last_result_get.err = "PoisonError"
    /\ ~progress_get.ok => progress_get.err = "PoisonError"
    /\ reqRet \in {"none", "Ok", "ErrLock"}
    /\ (fg = "idle" /\ ~NoCallYet) => reqRet \in {"Ok", "ErrLock"}
    /\ reqRet = "ErrLock" => (LockFails("state") \/ LockFails("progress"))

\* C9 witness: a request() call returned a lock error on the poisoned state
\* lock, and is_pending() returns that error too.
C9_Witness ==
    /\ reqRet = "ErrLock" /\ fg = "idle"
    /\ LockFails("state")
    /\ is_pending = Err("PoisonError")

\* C10 (no permanent busy state on coordination failure): a worker that
\* failed to send the sentinel, to join the relay, to write the result or to
\* send the completion notification has performed the state-clear step.
C10_ClearedAfterCoordinationFailure ==
    \A j \in Jobs :
      hist[j].panicAt \in {"send_done", "join", "set_result", "notify"}
        => hist[j].cleared

\* thread t waits for something another thread must do: the worker for
\* fetch_origin to return or for its relay to end, the relay for an event
Blocked(t) ==
    IF t = Fg THEN FALSE
    ELSE IF t[1] = "worker"
      THEN \/ wpc[t[2]] = "running"
           \/ wpc[t[2]] = "join" /\ rpc[t[2]] \notin {"done", "panicked"}
    ELSE rpc[t[2]] = "recv" /\ chan[t[2]] = << >>

\* a worker or a relay that has ended
Dead(t) ==
    /\ t # Fg
    /\ IF t[1] = "worker" THEN Ended(wpc[t[2]])
       ELSE rpc[t[2]] \in {"done", "panicked"}

\* C11 (the foreground never waits on the worker): no thread is inside more
\* than one of the three mutexes; a thread blocked in fetch_origin, in recv()
\* or in join(), and a thread that has ended, is inside none; a thread inside
\* a mutex can always take its next step, so every critical section ends
\* without waiting for another thread; and a request() call that has started
\* can take its next step unless the mutex it needs is owned by a thread that
\* can itself take its next step.
C11_ForegroundNeverWaits ==
    /\ \A l \in Locks : owner[l] \in Threads \cup {NoOwner}
    /\ \A t \in Threads : Cardinality(Owned(t)) <= 1
    /\ \A t \in Threads : (Blocked(t) \/ Dead(t)) => Owned(t) = {}
    /\ \A t \in Threads : Owned(t) # {} => ENABLED ThreadStep(t)
    /\ fg # "idle" =>
         \/ ENABLED FgLockStep
         \/ \E l \in Wants(Fg) :
              /\ owner[l] \in Threads \ {Fg}
              /\ ENABLED ThreadStep(owner[l])

\* C11 witness: the foreground is inside last_result() and a request() call
\* has returned while fetch_origin of the first job is still running and its
\* relay waits for an event.
C11_Witness ==
    /\ wpc[1] = "running" /\ rpc[1] = "recv" /\ chan[1] = << >>
    /\ owner["last_result"] = Fg
    /\ fg = "idle" /\ reqRet = "Ok"
    /\ IsSome(progress)

\* the answer of component i to the event of the call
Answer(i) == pump.components[i][pump.ev]

\* the first component that does not answer Ok(false), 0 if there is none
FirstStop ==
    LET S == { i \in 1..Len(pump.components) : Answer(i) # "false" }
    IN IF S = {} THEN 0 ELSE CHOOSE i \in S : \A k \in S : i <= k

\* C12 (event_pump): once the call has returned, the components called are
\* the first k of the slice, in list order and once each, where k is the
\* first component that consumed the event or failed, or the whole slice when
\* there is none; the call returns Ok(true) exactly when component k consumed
\* the event, that component's error when it failed, and Ok(false) exactly
\* when every component was called and none consumed the event.
C12_PumpStopsAtFirstConsumer ==
    pump.ret # NoRet =>
      LET n == Len(pump.components)
          k == IF FirstStop = 0 THEN n ELSE FirstStop
      IN /\ pump.called = [i \in 1..k |-> i]
         /\ pump.ret = OkRet(TRUE) <=> (FirstStop # 0 /\ Answer(k) = "true")
         /\ pump.ret.tag = "Err" <=> (FirstStop # 0 /\ Answer(k) = "err")
         /\ pump.ret.tag = "Err" => pump.ret = ErrRet(k)
         /\ pump.ret = OkRet(FALSE) <=> FirstStop = 0
         /\ pump.ret = OkRet(FALSE) =>
              /\ Len(pump.called) = n
              /\ \A i \in 1..n : Answer(i) = "false"

\* C12 witness: the first component passed the event on, the second consumed
\* it, and the third, which would have failed, was not called.
C12_Witness ==
    /\ Len(pump.components) = 3
    /\ Answer(1) = "false" /\ Answer(2) = "true" /\ Answer(3) = "err"
    /\ pump.ret = OkRet(TRUE)
    /\ pump.called = << 1, 2 >>

\* C13 (progress drain and order): the events in a job's channel are in
\* emission order and later than the event in ProgressSnapshot; the sentinel
\* is in the channel only after fetch_origin returned and nothing follows it;
\* and once the relay of the latest job has ended its loop on the sentinel
\* (so that join() returns), no event is left in the channel and progress()
\* (its lock usable) is the last event fetch_origin emitted for this job, or
\* None if it emitted none.
C13_ProgressDrained ==
    \A j \in Jobs :
      /\ \A i \in 1..Len(chan[j]) :
           /\ chan[j][i].kind = "Done" => (i = Len(chan[j]) /\ hist[j].returned)
           /\ chan[j][i].kind # "Done" =>
                /\ chan[j][i].job = j
                /\ \A k \in 1..(i - 1) : chan[j][k].seq < chan[j][i].seq
                /\ (IsSome(progress) /\ progress[1].job = j)
                     => progress[1].seq < chan[j][i].seq
      /\ (rpc[j] = "done" /\ tally.job = j) =>
           /\ chan[j] = << >>
           /\ hist[j].returned
           /\ progress = IF tally.emitted = 0 THEN None ELSE Some(tally.last)
           /\ ~LockFails("progress") =>
                progress_get = Ok(IF tally.emitted = 0 THEN None
                                  ELSE Some(Into(tally.last)))

\* C13 witness: fetch_origin emitted two events and failed, the relay has
\* been joined and the snapshot is the second event.
C13_Witness ==
    /\ tally.job = 1 /\ tally.emitted = 2
    /\ rpc[1] = "done" /\ wpc[1] = "set_result" /\ ~wres[1].ok
    /\ progress = Some(tally.last)
    /\ tally.last.seq = 2

\* C14 (progress belongs to the current job): while a job is in flight
\* ProgressSnapshot is None or an event of that job; a job that cleared
\* JobState has a relay that ended its loop and left nothing in its channel,
\* so it writes nothing afterwards; and while an admitted request() is about
\* to reset ProgressSnapshot the new worker does not exist and no event of the
\* new job has been emitted, and a freshly spawned worker finds it None.
C14_ProgressOfCurrentJob ==
    /\ \A j \in InFlight : progress = None \/ progress[1].job = j
    /\ \A j \in Jobs : hist[j].cleared => (rpc[j] = "done" /\ chan[j] = << >>)
    /\ fg \in {"set_progress", "spawn"} =>
         /\ wpc[NextJob] = "none" /\ rpc[NextJob] = "none"
         /\ tally = NewTally(NextJob)
    /\ fg = "spawn" => progress = None
    /\ \A j \in Jobs : wpc[j] = "start" => progress = None

\* C14 witness: the first job left an event behind, and the second job is in
\* fetch_origin with its own first event in the snapshot.
C14_Witness ==
    /\ hist[1].cleared /\ rpc[1] = "done"
    /\ wpc[2] = "running"
    /\ IsSome(progress) /\ progress[1].job = 2 /\ progress[1].seq = 1
    /\ Len(sender) >= 3

\* the latest job sent at least one progress notification and its completion
\* notification
TickAndCompletionSent ==
    /\ tally.job \in Jobs
    /\ tally.ticks > 0
    /\ hist[tally.job].notified

\* C15 as stated (notification tag): when a job has sent a progress
\* notification and its completion notification, the two are different
\* values.
C15_TickDiffersFromCompletion ==
    TickAndCompletionSent
      => Notification("progress") # Notification("completion")

\* C15 as amended (the notification names the job kind only): every
\* notification on the channel is AsyncNotification::Fetch, and the progress
\* notifications of a job are the same value as its completion notification.
C15_KindOnly ==
    /\ \A i \in 1..Len(sender) : sender[i] = "Fetch"
    /\ TickAndCompletionSent
         => /\ Notification("progress") = Notification("completion")
            /\ \A i, k \in 1..Len(sender) : sender[i] = sender[k]

\* C15 witness: two progress notifications and the completion notification of
\* the first job are on the channel.
C15_Witness ==
    /\ TickAndCompletionSent
    /\ tally.job = 1 /\ tally.ticks = 2
    /\ Len(sender) = 3

\* C16 (notification count), the part that never fails: the notification
\* channel grows by one notification at a time, sent by a relay for an event
\* it wrote or by a worker for its completion, so neither the sentinel nor a
\* request() dropped while busy adds one; the latest job has sent at most one
\* progress notification per event emitted, exactly one per event once its
\* relay ended on the sentinel, and its completion notification only after
\* that.
C16_AtMostOnePerEvent ==
    [][ /\ sender' # sender =>
             /\ sender' = Append(sender, "Fetch")
             /\ \/ \E j \in Jobs : rpc[j] = "notify" /\ rpc'[j] = "recv"
                \/ \E j \in Jobs : ~hist[j].notified /\ hist'[j].notified
        /\ tally'.ticks <= tally'.emitted
        /\ \A j \in Jobs :
             /\ (rpc'[j] = "done" /\ tally'.job = j)
                  => tally'.ticks = tally'.emitted
             /\ hist'[j].notified => rpc'[j] = "done" ]_vars

\* C16 (notification count): for every admitted job whose fetch_origin call
\* returned, the completion notification is eventually sent (unless the
\* application dropped the receiver), after one progress notification for
\* each event emitted.
C16_OnePerEventAndOneCompletion ==
    \A j \in Jobs :
      hist[j].returned ~>
        \/ ~rxAlive
        \/ /\ hist[j].notified
           /\ tally.job = j => tally.ticks = tally.emitted

\* the step is a statement of a worker or of a relay, not of the foreground
ByWorkerOrRelay == fgvars' = fgvars /\ (wpc' # wpc \/ rpc' # rpc)

\* C17 as stated (writer exclusivity): every step that changes
\* ProgressSnapshot or ResultRecord is a step of a worker or of its relay.
C17_OnlyWorkerWrites ==
    [][ (progress' # progress \/ last_result' # last_result)
          => ByWorkerOrRelay ]_vars

\* C17 as amended (writer exclusivity but for the reset): ResultRecord is
\* changed only by a worker's set_result; ProgressSnapshot is changed only by
\* a relay writing an event, or by an admitted request() that resets it to
\* None before it spawns the worker; no other foreground step changes either.
C17_OnlyWorkerWritesButReset ==
    [][ /\ last_result' # last_result
             => /\ ByWorkerOrRelay
                /\ \E j \in Jobs : wpc[j] = "set_result" /\ hist'[j].wrote
        /\ progress' # progress
             => \/ /\ ByWorkerOrRelay
                   /\ \E j \in Jobs : /\ rpc[j] = "recv" /\ rpc'[j] = "notify"
                                      /\ progress' = Some(Head(chan[j]))
                \/ /\ fg = "set_progress" /\ fg' = "spawn"
                   /\ progress' = None
                   /\ UNCHANGED << state, last_result, threads >> ]_vars

\* C17 witness: the first job left its last event and its result behind, and
\* the request() that admitted the second job has reset the snapshot and is
\* about to spawn the worker.
C17_Witness ==
    /\ fg = "spawn" /\ nJobs = 1
    /\ hist[1].notified /\ Len(sender) >= 2
    /\ progress = None /\ IsSome(last_result)

\* the step is job j's write of ResultRecord
WritesResult(j) == ~hist[j].wrote /\ hist'[j].wrote

\* C18 (one result write per job), the part that never fails: ResultRecord
\* changes only in the set_result of a worker that has not written before,
\* while that job's JobState is present and no other worker is at or past its
\* own set_result without having cleared; so a job writes at most once and
\* ResultRecord stays as it is from one job's write to the next job's.
C18_AtMostOnceWhilePending ==
    [][ /\ last_result' # last_result => \E j \in Jobs : WritesResult(j)
        /\ \A j \in Jobs :
             WritesResult(j) =>
               /\ wpc[j] = "set_result"
               /\ last_result' = ResultRecord(wres[j])
               /\ j \in InFlight /\ state = NewState(wparams[j])
               /\ state' = state
               /\ \A k \in Jobs \ {j} : k \notin InFlight
               /\ written'.job = j ]_vars

\* C18 (one result write per job): every admitted job whose request() call
\* or whose worker has ended has written ResultRecord.
C18_WrittenOncePerJob ==
    \A j \in Jobs :
      (hist[j].admitted
         /\ (Ended(wpc[j]) \/ (fg = "idle" /\ wpc[j] = "none")))
        => hist[j].wrote

\* C19 (state unchanged on a failed request()): when the last request() call
\* returned an error, every JobState installed so far belongs to a job whose
\* worker was spawned.
C19_NoStateAfterFailedRequest ==
    (fg = "idle" /\ reqRet = "ErrLock") => Admitted \subseteq Spawned

\* C20 (set_request never finds a pending request): while request() is
\* between its is_pending() check and set_request, JobState is absent; no
\* request() call returns the "pending request" error; JobState goes from
\* absent to present only in request()'s set_request and from present to
\* absent only in a worker's clear_request.
C20_PendingErrorUnreachable ==
    [][ /\ fg' = "set_request" => state' = None
        /\ reqRet' # "ErrPending"
        /\ fg = "set_request" => set_request(fgParams).ret # "ErrPending"
        /\ (state = None /\ state' # None)
             => fg = "set_request" /\ fg' = "set_progress"
        /\ (state # None /\ state' = None)
             => \E j \in Jobs : wpc[j] = "clear" /\ hist'[j].cleared ]_vars

\* C20 witness: the first job cleared JobState and its worker is still about
\* to send the completion notification while the next request() has passed the
\* is_pending() check and is about to run set_request.
C20_Witness ==
    /\ fg = "set_request" /\ nJobs = 1
    /\ wpc[1] = "notify" /\ hist[1].cleared
    /\ state = None

====
